---------------------------- MODULE Spec2Model ----------------------------
(***************************************************************************)
(* Rubric-based answer grading: grade_rag.py and grade_real_world.py.      *)
(*                                                                         *)
(* Text is modelled by TLA+ strings (Len, SubSeq and \o act on them        *)
(* character by character).  A score is an integer number of tenths:       *)
(* 0.3 is 3, 1.0 is 10, 2.0 is 20.  A JSON value is a record               *)
(* [t |-> type, v |-> payload].                                            *)
(***************************************************************************)
EXTENDS Integers, Sequences, FiniteSets, TLC

-----------------------------------------------------------------------------
(* JSON values as the graders meet them *)

Str(s) == [t |-> "str", v |-> s]
Null == [t |-> "null", v |-> ""]
Absent == [t |-> "absent", v |-> ""]
List(xs) == [t |-> "list", v |-> xs]
IsStr(x) == x.t = "str"

-----------------------------------------------------------------------------
(* Characters and strings *)

UpperChars == "ABCDEFGHIJKLMNOPQRSTUVWXYZ"
LowerChars == "abcdefghijklmnopqrstuvwxyz"
\* the characters of the model in code-point order
Ascii == "\t\n #*./0123456789:;?ABCDEFGHIJKLMNOPQRSTUVWXYZ_abcdefghijklmnopqrstuvwxyz"

CharAt(s, i) == SubSeq(s, i, i)
Rest(s) == SubSeq(s, 2, Len(s))
IndexIn(c, table) == IF \E i \in 1..Len(table) : CharAt(table, i) = c
                     THEN CHOOSE i \in 1..Len(table) : CharAt(table, i) = c
                     ELSE 0

\* str.isspace for one character
IsSpace(c) == c \in {" ", "\t", "\n"}

LowerMap == [c \in {CharAt(UpperChars, i) : i \in 1..Len(UpperChars)} |->
                CharAt(LowerChars, IndexIn(c, UpperChars))]
LowerChar(c) == IF c \in DOMAIN LowerMap THEN LowerMap[c] ELSE c

RECURSIVE lower(_)
\* str.lower
lower(s) == IF s = "" THEN "" ELSE LowerChar(CharAt(s, 1)) \o lower(Rest(s))

RECURSIVE lstrip(_)
lstrip(s) == IF s # "" /\ IsSpace(CharAt(s, 1)) THEN lstrip(Rest(s)) ELSE s

RECURSIVE rstrip(_)
rstrip(s) == IF s # "" /\ IsSpace(CharAt(s, Len(s)))
             THEN rstrip(SubSeq(s, 1, Len(s) - 1)) ELSE s

\* str.strip
strip(s) == rstrip(lstrip(s))

RECURSIVE collapse(_)
\* re.sub(r"\s+", " ", s): every maximal run of whitespace becomes one space
collapse(s) ==
    IF s = "" THEN ""
    ELSE IF IsSpace(CharAt(s, 1))
         THEN " " \o collapse(lstrip(s))
         ELSE CharAt(s, 1) \o collapse(Rest(s))

\* norm(s), on a str
norm(s) == collapse(lower(strip(s)))

\* r in a
Contains(r, a) ==
    \E i \in 1..(Len(a) - Len(r) + 1) : SubSeq(a, i, i + Len(r) - 1) = r


-----------------------------------------------------------------------------
(* The rubrics *)

\* grade_rag.RUBRIC; special is "none" where the entry has no "special" key
RUBRIC ==
    [G1 |-> [content_rules |-> << <<"support bundle">> >>,
             cite_rules |-> <<"docs/cli_reference.md">>,
             special |-> "none"],
     G2 |-> [content_rules |-> << <<"time", "ntp">>, <<"clock", "ntp">> >>,
             cite_rules |-> <<"docs/kb_ntp_time.md", "docs/troubleshooting_auth.md">>,
             special |-> "none"],
     G3 |-> [content_rules |-> << <<"error code catalog">>, <<"support error code catalog">> >>,
             cite_rules |-> <<"docs/error_code_catalog.md">>,
             special |-> "none"],
     G4 |-> [content_rules |-> << <<"support bundle">>, <<"error code">>, <<"10 minutes">> >>,
             cite_rules |-> <<"docs/troubleshooting_*.md">>,
             special |-> "two_of_three"],
     G5 |-> [content_rules |-> << <<"vlan", "both ends">>, <<"native vlan", "both ends">>,
                                  <<"align", "vlan">> >>,
             cite_rules |-> <<"docs/kb_vlan_mismatch.md">>,
             special |-> "none"],
     G6 |-> [content_rules |-> << <<"vpn tunnel up corp-vpn">> >>,
             cite_rules |-> <<"docs/cli_reference.md">>,
             special |-> "none"],
     G7 |-> [content_rules |-> << <<"e2501", "config database", "locked", "cfg unlock">>,
                                  <<"config database", "locked", "cfg unlock">> >>,
             cite_rules |-> <<"docs/error_code_catalog.md", "docs/troubleshooting_storage.md",
                              "docs/cli_reference.md">>,
             special |-> "none"],
     G8 |-> [content_rules |-> << <<"reachability">>, <<"psk", "proposal">>, <<"vpn tunnel up">> >>,
             cite_rules |-> <<"docs/kb_vpn_basics.md">>,
             special |-> "two_of_three"],
     H1 |-> [content_rules |-> << <<"e2103", "time", "ntp", "ca">>,
                                  <<"time", "ntp", "ca bundle">>,
                                  <<"clock", "ntp", "ca bundle">> >>,
             cite_rules |-> <<"docs/error_code_catalog.md", "docs/kb_ntp_time.md",
                              "docs/troubleshooting_auth.md">>,
             special |-> "none"],
     H2 |-> [content_rules |-> << <<"3.2">> >>,
             cite_rules |-> <<"docs/release_notes.md">>,
             special |-> "none"],
     H3 |-> [content_rules |-> << <<"cfg unlock">> >>,
             cite_rules |-> <<"docs/cli_reference.md", "docs/error_code_catalog.md",
                              "docs/troubleshooting_storage.md">>,
             special |-> "none"],
     H4 |-> [content_rules |-> << <<"e2701", "cable">>, <<"e2701", "sfp">>,
                                  <<"replace", "cable">>, <<"replace", "sfp">> >>,
             cite_rules |-> <<"docs/error_code_catalog.md", "docs/troubleshooting_switching.md">>,
             special |-> "none"],
     RW1 |-> [content_rules |-> << <<"e2002", "dhcp", "vlan", "firmware">>,
                                   <<"e2002", "interface", "vlan", "firmware">>,
                                   <<"dhcp", "lease", "timeout", "vlan">> >>,
              cite_rules |-> <<"docs/troubleshooting_dhcp.md", "docs/error_code_catalog.md">>,
              special |-> "none"],
     RW2 |-> [content_rules |-> << <<"interface", "vlan", "dhcp", "firmware">>,
                                   <<"show interfaces", "vlan", "dhcp", "firmware">>,
                                   <<"interface status", "vlan", "dhcp">> >>,
              cite_rules |-> <<"docs/troubleshooting_dhcp.md">>,
              special |-> "none"],
     RW3 |-> [content_rules |-> << <<"e2002", "dhcp", "lease", "timeout">>,
                                   <<"dhcp", "lease", "acquisition", "timeout">> >>,
              cite_rules |-> <<"docs/error_code_catalog.md", "docs/troubleshooting_dhcp.md">>,
              special |-> "none"]]

\* grade_real_world.RUBRIC
rw_RUBRIC ==
    [RW1 |-> [content_rules |-> << <<"e2002", "dhcp", "vlan", "firmware">>,
                                   <<"e2002", "interface", "vlan", "firmware">>,
                                   <<"dhcp", "lease", "timeout", "vlan">> >>,
              cite_rules |-> <<"docs/troubleshooting_dhcp.md", "docs/error_code_catalog.md">>],
     RW2 |-> [content_rules |-> << <<"interface", "vlan", "dhcp", "firmware">>,
                                   <<"show interfaces", "vlan", "dhcp", "firmware">>,
                                   <<"interface status", "vlan", "dhcp">> >>,
              cite_rules |-> <<"docs/troubleshooting_dhcp.md">>],
     RW3 |-> [content_rules |-> << <<"e2002", "dhcp", "lease", "timeout">>,
                                   <<"dhcp", "lease", "acquisition", "timeout">> >>,
              cite_rules |-> <<"docs/error_code_catalog.md", "docs/troubleshooting_dhcp.md">>]]

-----------------------------------------------------------------------------
(* Outcomes of a call: a returned value or a raised exception *)

Ret(score, msg) == [exc |-> "", score |-> score, msg |-> msg]
Raise(e) == [exc |-> e, score |-> 0, msg |-> ""]
RetBool(b) == [exc |-> "", val |-> b]
RaiseBool(e) == [exc |-> e, val |-> FALSE]

\* all(r in a for r in reqs)
AllIn(reqs, a) == \A k \in 1..Len(reqs) : Contains(reqs[k], a)

\* sum(1 for r in alt if r in a)
Matches(alt, a) == Cardinality({k \in 1..Len(alt) : Contains(alt[k], a)})

-----------------------------------------------------------------------------
\* content_score with any() for all() in the normal scoring of line 148
content_score_any(qid, answer) ==
    IF ~IsStr(answer) THEN Raise("AttributeError")
    ELSE
    LET cfg == RUBRIC[qid]
        a == norm(answer.v)
        checks == cfg.content_rules
        hit == Cardinality({k \in 1..Len(checks) : AllIn(checks[k], a)})
    IN  IF cfg.special = "two_of_three"
        THEN IF hit >= 3 THEN Ret(10, "content: full (3/3 checks)")
             ELSE IF hit = 2 THEN Ret(7, "content: partial (2/3 checks)")
             ELSE IF hit = 1 THEN Ret(3, "content: minimal (1/3 checks)")
             ELSE Ret(0, "content: miss")
        ELSE IF \E k \in 1..Len(checks) : \E j \in 1..Len(checks[k]) : Contains(checks[k][j], a)
             THEN Ret(10, "content: full")
             ELSE Ret(0, "content: miss")

\* content_score with the steps of lines 138 and 140 merged: two hits give full credit
content_score_two_full(qid, answer) ==
    IF ~IsStr(answer) THEN Raise("AttributeError")
    ELSE
    LET cfg == RUBRIC[qid]
        a == norm(answer.v)
        checks == cfg.content_rules
        hit == Cardinality({k \in 1..Len(checks) : AllIn(checks[k], a)})
    IN  IF cfg.special = "two_of_three"
        THEN IF hit >= 2 THEN Ret(10, "content: full (3/3 checks)")
             ELSE IF hit = 1 THEN Ret(3, "content: minimal (1/3 checks)")
             ELSE Ret(0, "content: miss")
        ELSE IF \E k \in 1..Len(checks) : AllIn(checks[k], a)
             THEN Ret(10, "content: full")
             ELSE Ret(0, "content: miss")

(* grade_rag.content_score *)

content_score(qid, answer) ==
    IF ~IsStr(answer) THEN Raise("AttributeError")
    ELSE
    LET cfg == RUBRIC[qid]
        a == norm(answer.v)
        checks == cfg.content_rules
        hit == Cardinality({k \in 1..Len(checks) : AllIn(checks[k], a)})
    IN  IF cfg.special = "two_of_three"
        THEN IF hit >= 3 THEN Ret(10, "content: full (3/3 checks)")
             ELSE IF hit = 2 THEN Ret(7, "content: partial (2/3 checks)")
             ELSE IF hit = 1 THEN Ret(3, "content: minimal (1/3 checks)")
             ELSE Ret(0, "content: miss")
        ELSE IF \E k \in 1..Len(checks) : AllIn(checks[k], a)
             THEN Ret(10, "content: full")
             ELSE Ret(0, "content: miss")

\* content_score of grade_real_world with credit in proportion to the keywords found
rw_content_score_ratio(qid, answer) ==
    IF qid \notin DOMAIN rw_RUBRIC THEN Ret(0, "content: no rubric")
    ELSE IF ~IsStr(answer) THEN Raise("AttributeError")
    ELSE
    LET cfg == rw_RUBRIC[qid]
        a == norm(answer.v)
        rules == cfg.content_rules
        counts == {Matches(rules[k], a) : k \in 1..Len(rules)} \cup {0}
        best_match == CHOOSE m \in counts : \A n \in counts : n <= m
        first == Len(rules[1])
    IN  IF \E k \in 1..Len(rules) : AllIn(rules[k], a)
        THEN Ret(10, "content: full")
        ELSE Ret((10 * best_match) \div first, "content: partial")

\* content_score of grade_real_world giving full credit for the first alternative only
rw_content_score_first_alt(qid, answer) ==
    IF qid \notin DOMAIN rw_RUBRIC THEN Ret(0, "content: no rubric")
    ELSE IF ~IsStr(answer) THEN Raise("AttributeError")
    ELSE
    LET cfg == rw_RUBRIC[qid]
        a == norm(answer.v)
        rules == cfg.content_rules
        counts == {Matches(rules[k], a) : k \in 1..Len(rules)} \cup {0}
        best_match == CHOOSE m \in counts : \A n \in counts : n <= m
        first == Len(rules[1])
    IN  IF AllIn(rules[1], a)
        THEN Ret(10, "content: full")
        ELSE IF best_match >= first - 1
        THEN Ret(7, "content: partial (" \o ToString(best_match) \o "/"
                     \o ToString(first) \o " keywords)")
        ELSE IF best_match >= first \div 2
        THEN Ret(3, "content: minimal (" \o ToString(best_match) \o "/"
                     \o ToString(first) \o " keywords)")
        ELSE Ret(0, "content: miss")

(* grade_real_world.content_score *)

rw_content_score(qid, answer) ==
    IF qid \notin DOMAIN rw_RUBRIC THEN Ret(0, "content: no rubric")
    ELSE IF ~IsStr(answer) THEN Raise("AttributeError")
    ELSE
    LET cfg == rw_RUBRIC[qid]
        a == norm(answer.v)
        rules == cfg.content_rules
        counts == {Matches(rules[k], a) : k \in 1..Len(rules)} \cup {0}
        best_match == CHOOSE m \in counts : \A n \in counts : n <= m
        first == Len(rules[1])
    IN  IF \E k \in 1..Len(rules) : AllIn(rules[k], a)
        THEN Ret(10, "content: full")
        ELSE IF best_match >= first - 1
        THEN Ret(7, "content: partial (" \o ToString(best_match) \o "/"
                     \o ToString(first) \o " keywords)")
        ELSE IF best_match >= first \div 2
        THEN Ret(3, "content: minimal (" \o ToString(best_match) \o "/"
                     \o ToString(first) \o " keywords)")
        ELSE Ret(0, "content: miss")

-----------------------------------------------------------------------------
(* citation_ok, the same code in both graders *)

RECURSIVE fnmatch(_, _)
\* fnmatch.fnmatch(name, pat) for patterns over literals, * and ?
fnmatch(name, pat) ==
    IF pat = "" THEN name = ""
    ELSE IF CharAt(pat, 1) = "*"
         THEN \E k \in 0..Len(name) : fnmatch(SubSeq(name, k + 1, Len(name)), Rest(pat))
    ELSE IF CharAt(pat, 1) = "?"
         THEN name # "" /\ fnmatch(Rest(name), Rest(pat))
    ELSE name # "" /\ CharAt(name, 1) = CharAt(pat, 1) /\ fnmatch(Rest(name), Rest(pat))

\* what "for x in citations" iterates: the elements of a list, the characters
\* of a str
Items(citations) ==
    IF citations.t = "list" THEN citations.v
    ELSE [i \in 1..Len(citations.v) |-> Str(CharAt(citations.v, i))]

\* "not citations": None, [] and "" are falsy
Falsy(x) == \/ x.t = "null"
            \/ (x.t = "list" /\ Len(x.v) = 0)
            \/ (x.t = "str" /\ Len(x.v) = 0)

\* citation_ok that wants every pattern cited, not any one
citation_ok_all(citations, patterns) ==
    IF Falsy(citations) THEN RetBool(FALSE)
    ELSE
    LET xs == Items(citations)
    IN  IF \E i \in 1..Len(xs) : ~IsStr(xs[i]) THEN RaiseBool("AttributeError")
        ELSE LET c == [i \in 1..Len(xs) |-> norm(xs[i].v)]
             IN  RetBool(\A p \in 1..Len(patterns) : \E i \in 1..Len(c) :
                            LET pat_n == norm(patterns[p])
                            IN  \/ Contains(pat_n, c[i])
                                \/ fnmatch(c[i], "*" \o pat_n \o "*"))

citation_ok(citations, patterns) ==
    IF Falsy(citations) THEN RetBool(FALSE)
    ELSE
    LET xs == Items(citations)
    IN  IF \E i \in 1..Len(xs) : ~IsStr(xs[i]) THEN RaiseBool("AttributeError")
        ELSE LET c == [i \in 1..Len(xs) |-> norm(xs[i].v)]
             IN  RetBool(\E p \in 1..Len(patterns) : \E i \in 1..Len(c) :
                            LET pat_n == norm(patterns[p])
                            IN  \/ Contains(pat_n, c[i])
                                \/ fnmatch(c[i], "*" \o pat_n \o "*"))

-----------------------------------------------------------------------------
(* State.  u_* hold one call of a scoring function; grader .. prev one run   *)
(* of a grader's main(); t_pc .. blocks one run of test_real_world.main().  *)

VARIABLES u_fn, u_args, u_out,
          grader, pc, files, include_hidden, gold, hidden, student,
          key_ids, by_id, todo, results, total, max_total, report, stdout,
          run, prev,
          t_pc, questions, qpos, outputs, blocks

u_vars == <<u_fn, u_args, u_out>>
m_vars == <<grader, pc, files, include_hidden, gold, hidden, student,
            key_ids, by_id, todo, results, total, max_total, report, stdout,
            run, prev>>
t_vars == <<t_pc, questions, qpos, outputs, blocks>>
vars == <<u_vars, m_vars, t_vars>>

Pending == [exc |-> "pending"]

\* no call of a scoring function is under way
u_Idle == u_fn = "none" /\ u_args = <<>> /\ u_out = Pending

\* no grader run is under way
m_Idle == /\ grader = "none" /\ pc = "idle" /\ files = {} /\ include_hidden = FALSE
          /\ gold = <<>> /\ hidden = <<>> /\ student = <<>>
          /\ key_ids = {} /\ by_id = <<>> /\ todo = <<>> /\ results = <<>>
          /\ total = 0 /\ max_total = 0 /\ report = <<>> /\ stdout = <<>>
          /\ run = 0 /\ prev = <<>>

\* no run of test_real_world is under way
t_Idle == /\ t_pc = "idle" /\ questions = <<>> /\ qpos = 0 /\ outputs = <<>>
          /\ blocks = <<>>

-----------------------------------------------------------------------------
(* Inputs of the scoring functions *)

\* the most rubric keywords put into one answer
MaxToks == 4
\* the most citations in one list
MaxCites == 2

RECURSIVE upper(_)
upper(s) == IF s = "" THEN ""
            ELSE (IF IndexIn(CharAt(s, 1), LowerChars) = 0 THEN CharAt(s, 1)
                  ELSE CharAt(UpperChars, IndexIn(CharAt(s, 1), LowerChars)))
                 \o upper(Rest(s))

RECURSIVE widen(_)
\* every space becomes a run of mixed whitespace
widen(s) == IF s = "" THEN ""
            ELSE (IF CharAt(s, 1) = " " THEN " \n\t" ELSE CharAt(s, 1)) \o widen(Rest(s))

pad(s) == "\t " \o s \o " \n"

RECURSIVE Join(_, _)
Join(S, sep) ==
    IF S = {} THEN ""
    ELSE LET x == CHOOSE y \in S : TRUE
         IN  IF S = {x} THEN x ELSE x \o sep \o Join(S \ {x}, sep)

Range(f) == {f[i] : i \in DOMAIN f}

\* the required substrings of a question, and one word no rule asks for
Tokens(qid) ==
    (IF qid \in DOMAIN RUBRIC
     THEN UNION {Range(RUBRIC[qid].content_rules[k]) :
                    k \in DOMAIN RUBRIC[qid].content_rules}
     ELSE {}) \cup {"zz"}

Styles == {"plain", "glued", "upper", "wide"}

Styled(T, style) ==
    CASE style = "plain" -> Join(T, " ")
      [] style = "glued" -> Join(T, "")
      [] style = "upper" -> upper(Join(T, ", "))
      [] style = "wide"  -> pad(widen(Join(T, " ")))

Answers(qid) ==
    {Str(Styled(T, st)) :
        T \in {X \in SUBSET Tokens(qid) : Cardinality(X) <= MaxToks}, st \in Styles}
    \cup {Null}

ContentIds == DOMAIN RUBRIC
rw_ContentIds == DOMAIN rw_RUBRIC \cup {"Z9"}

CiteStrings ==
    {"Docs/CLI_Reference.md", "  docs/kb_ntp_time.md\n",
     "kb/docs/troubleshooting_auth.md#L10", "docs/troubleshooting_.md",
     "troubleshooting_dhcp.md", ""}
CiteItems == {Str(s) : s \in CiteStrings} \cup {Null}

SeqsUpTo(S, n) == UNION {[1..k -> S] : k \in 0..n}

CiteLists == {List(xs) : xs \in SeqsUpTo(CiteItems, MaxCites)} \cup {Null}

MapSeq(ps, F(_)) == [i \in DOMAIN ps |-> F(ps[i])]

\* the cite_rules of the rubric, and two of them in another case and padding
PatternLists ==
    LET base == {RUBRIC[q].cite_rules : q \in DOMAIN RUBRIC}
        varied == {RUBRIC["G2"].cite_rules, RUBRIC["G4"].cite_rules}
    IN  base \cup {MapSeq(ps, upper) : ps \in varied} \cup {MapSeq(ps, pad) : ps \in varied}

-----------------------------------------------------------------------------
(* One call of content_score *)

InitContent ==
    /\ m_Idle /\ t_Idle
    /\ u_out = Pending
    /\ \/ /\ u_fn = "content_score"
          /\ \E q \in ContentIds : \E a \in Answers(q) : u_args = [qid |-> q, answer |-> a]
       \/ /\ u_fn = "rw_content_score"
          /\ \E q \in rw_ContentIds : \E a \in Answers(q) : u_args = [qid |-> q, answer |-> a]

CallContentScore ==
    /\ u_fn = "content_score" /\ u_out = Pending
    /\ u_out' = content_score(u_args.qid, u_args.answer)
    /\ UNCHANGED <<u_fn, u_args, m_vars, t_vars>>

CallRwContentScore ==
    /\ u_fn = "rw_content_score" /\ u_out = Pending
    /\ u_out' = rw_content_score(u_args.qid, u_args.answer)
    /\ UNCHANGED <<u_fn, u_args, m_vars, t_vars>>

NextContent == CallContentScore \/ CallRwContentScore

SpecContent == InitContent /\ [][NextContent]_vars

(* One call of citation_ok *)

InitCite ==
    /\ m_Idle /\ t_Idle
    /\ u_out = Pending
    /\ u_fn = "citation_ok"
    /\ \E c \in CiteLists : \E ps \in PatternLists :
          u_args = [citations |-> c, patterns |-> ps]

CallCitationOk ==
    /\ u_fn = "citation_ok" /\ u_out = Pending
    /\ u_out' = citation_ok(u_args.citations, u_args.patterns)
    /\ UNCHANGED <<u_fn, u_args, m_vars, t_vars>>

NextCite == CallCitationOk

SpecCite == InitCite /\ [][NextCite]_vars

-----------------------------------------------------------------------------
(* sorted() on str: code-point order *)

Code(c) == IndexIn(c, Ascii)

RECURSIVE StrLess(_, _)
\* a < b on str
StrLess(a, b) ==
    IF b = "" THEN FALSE
    ELSE IF a = "" THEN TRUE
    ELSE IF CharAt(a, 1) = CharAt(b, 1) THEN StrLess(Rest(a), Rest(b))
    ELSE Code(CharAt(a, 1)) < Code(CharAt(b, 1))

RECURSIVE sorted_reverse(_)
\* sorted(S, reverse=True)
sorted_reverse(S) ==
    IF S = {} THEN <<>>
    ELSE LET m == CHOOSE x \in S : \A y \in S \ {x} : StrLess(y, x)
         IN  <<m>> \o sorted_reverse(S \ {m})

RECURSIVE sorted(_)
\* sorted(S) for a set of str
sorted(S) ==
    IF S = {} THEN <<>>
    ELSE LET m == CHOOSE x \in S : \A y \in S \ {x} : StrLess(x, y)
         IN  <<m>> \o sorted(S \ {m})

-----------------------------------------------------------------------------
(* Inputs of a run: which files exist and what they hold *)

\* the most questions in one bank
MaxBank == 2
\* the most records in the answers file
MaxSubs == 2
\* the most runs over the same files
MaxRuns == 2

\* question ids of the banks; Q7 has no rubric entry
GoldIds == {"G4", "Q7", "RW1"}
HiddenBanks == {<<"H2", "G4">>}

AnswerFull == "Support bundle, error code, 10 minutes: E2002 DHCP VLAN"
AnswerMost == "support  bundle\n ERROR CODE; dhcp lease timeout vlan"
AnswerSome == "support bundle dhcp vlan"
CitesGood == List(<<Str("Docs/Troubleshooting_DHCP.md")>>)

Record(id, answer, citations) == [id |-> id, answer |-> answer, citations |-> citations]

\* the records an answers file is made of: good, partial and missing answers
\* and citations, a null answer, a citation that is no string, an id twice,
\* an id without rubric entry, a record without id
Records ==
    {Record(Str("G4"), Str(AnswerFull), CitesGood),
     Record(Str("G4"), Str(AnswerMost), List(<<>>)),
     Record(Str("G4"), Null, CitesGood),
     Record(Str("RW1"), Str(AnswerFull), CitesGood),
     Record(Str("RW1"), Str(AnswerMost), Absent),
     Record(Str("RW1"), Str(AnswerSome), Null),
     Record(Str("RW1"), Absent, List(<<Str("docs/cli_reference.md"), Null>>)),
     Record(Str("Q7"), Str(AnswerFull), CitesGood),
     Record(Absent, Str(AnswerFull), CitesGood)}

\* dict.get(key, default) on a record of a JSON object
Get(x, default) == IF x = Absent THEN default ELSE x

\* {x["id"]: x for x in student if "id" in x}: the last record of an id wins
ById(recs) ==
    LET ids == {recs[i].id.v : i \in {j \in DOMAIN recs : recs[j].id # Absent}}
    IN  [q \in ids |->
            recs[CHOOSE i \in DOMAIN recs :
                    /\ recs[i].id = Str(q)
                    /\ \A j \in DOMAIN recs : recs[j].id = Str(q) => j <= i]]

\* the submissions without the records that have no id
WithId(recs) == SelectSeq(recs, LAMBDA x : x.id # Absent)

\* by_id[qid]: no default, so a question without a record has nothing to score
Entry_no_default(qid) == IF qid \in DOMAIN by_id THEN by_id[qid]
                         ELSE [id |-> Absent, answer |-> Null, citations |-> Null]

\* by_id.get(qid, {})
Entry(qid) == IF qid \in DOMAIN by_id THEN by_id[qid]
              ELSE [id |-> Absent, answer |-> Absent, citations |-> Absent]

Fresh == /\ key_ids = {} /\ by_id = <<>> /\ todo = <<>> /\ results = <<>>
         /\ total = 0 /\ max_total = 0 /\ report = <<>> /\ stdout = <<>>

Init ==
    /\ u_Idle /\ t_Idle
    /\ pc = "start" /\ run = 1 /\ prev = <<>>
    /\ Fresh
    /\ \/ /\ grader = "rag"
          /\ files \in SUBSET {"gold", "hidden", "answers"}
          /\ include_hidden \in BOOLEAN
          \* the hidden bank is looked for only when it is asked for
          /\ "hidden" \in files => include_hidden
          /\ gold \in (IF "gold" \in files THEN SeqsUpTo(GoldIds, MaxBank) ELSE {<<>>})
          /\ hidden \in (IF "hidden" \in files THEN HiddenBanks ELSE {<<>>})
          /\ student \in (IF "answers" \in files THEN SeqsUpTo(Records, MaxSubs) ELSE {<<>>})
       \/ /\ grader = "rw"
          /\ files \in SUBSET {"answers"}
          /\ include_hidden = FALSE /\ gold = <<>> /\ hidden = <<>>
          /\ student \in (IF "answers" \in files THEN SeqsUpTo(Records, MaxSubs) ELSE {<<>>})

inputs == <<grader, files, include_hidden, gold, hidden, student, run, prev>>

\* one print(): what kind of line it is and what it names
Line(kind, text) == [kind |-> kind, text |-> text]

\* one printed line for each result, naming its id
ResultLines(rs) == [i \in DOMAIN rs |-> Line("result", rs[i].id)]

-----------------------------------------------------------------------------
(* grade_rag.main *)

RECURSIVE Dedup(_)
\* a sequence without the repeats of its elements
Dedup(xs) ==
    IF xs = <<>> THEN <<>>
    ELSE LET front == Dedup(SubSeq(xs, 1, Len(xs) - 1))
         IN  IF xs[Len(xs)] \in Range(front) THEN front ELSE Append(front, xs[Len(xs)])

\* main_start without sorted(): the ids are taken in the order of the banks
main_start_bank_order ==
    /\ grader = "rag" /\ pc = "start"
    /\ IF "gold" \notin files \/ "answers" \notin files
       THEN /\ pc' = "FileNotFoundError"
            /\ UNCHANGED <<key_ids, by_id, todo, stdout>>
       ELSE LET loaded == IF include_hidden /\ "hidden" \in files THEN hidden ELSE <<>>
                k == Range(gold) \cup (IF include_hidden THEN Range(loaded) ELSE {})
            IN  /\ key_ids' = k
                /\ by_id' = ById(student)
                /\ todo' = Dedup(gold \o (IF include_hidden THEN loaded ELSE <<>>))
                /\ stdout' = <<Line("mode", IF include_hidden THEN "gold + hidden"
                                                              ELSE "gold only")>>
                /\ pc' = "loop"
    /\ results' = <<>> /\ total' = 0 /\ max_total' = 0
    /\ UNCHANGED <<report, inputs, u_vars, t_vars>>

\* main_loop with line 195 moved above the rubric test of line 191
main_loop_count_all ==
    /\ grader = "rag" /\ pc = "loop" /\ todo # <<>>
    /\ LET qid == Head(todo)
           entry == Entry(qid)
           ans == Get(entry.answer, Str(""))
           cites == Get(entry.citations, List(<<>>))
       IN  IF qid \notin DOMAIN RUBRIC
           THEN /\ todo' = Tail(todo)
                /\ max_total' = max_total + 20
                /\ UNCHANGED <<pc, results, total>>
           ELSE LET c == content_score(qid, ans)
                    ok == citation_ok(cites, RUBRIC[qid].cite_rules)
                IN  IF c.exc # "" \/ ok.exc # ""
                    THEN /\ pc' = IF c.exc # "" THEN c.exc ELSE ok.exc
                         /\ max_total' = max_total + 20
                         /\ UNCHANGED <<todo, results, total>>
                    ELSE LET citescore == IF ok.val THEN 10 ELSE 0
                             score == c.score + citescore
                         IN  /\ max_total' = max_total + 20
                             /\ total' = total + score
                             /\ results' = Append(results,
                                    [id |-> qid, score |-> score,
                                     content_score |-> c.score,
                                     citation_score |-> citescore,
                                     content_msg |-> c.msg,
                                     citations_ok |-> ok.val])
                             /\ todo' = Tail(todo)
                             /\ pc' = pc
    /\ UNCHANGED <<key_ids, by_id, report, stdout, inputs, u_vars, t_vars>>

\* the start of main with by_id = {x["id"]: x for x in student}: a record
\* without id raises KeyError
main_start_key_error ==
    /\ grader = "rag" /\ pc = "start"
    /\ IF "gold" \notin files \/ "answers" \notin files
       THEN /\ pc' = "FileNotFoundError"
            /\ UNCHANGED <<key_ids, by_id, todo, stdout>>
       ELSE IF WithId(student) # student
       THEN /\ pc' = "KeyError"
            /\ UNCHANGED <<key_ids, by_id, todo, stdout>>
       ELSE LET loaded == IF include_hidden /\ "hidden" \in files THEN hidden ELSE <<>>
                k == Range(gold) \cup (IF include_hidden THEN Range(loaded) ELSE {})
            IN  /\ key_ids' = k
                /\ by_id' = ById(student)
                /\ todo' = sorted(k)
                /\ stdout' = <<Line("mode", IF include_hidden THEN "gold + hidden"
                                                              ELSE "gold only")>>
                /\ pc' = "loop"
    /\ results' = <<>> /\ total' = 0 /\ max_total' = 0
    /\ UNCHANGED <<report, inputs, u_vars, t_vars>>

\* lines 165-188: the files are checked and read, the accumulators set
main_start ==
    /\ grader = "rag" /\ pc = "start"
    /\ IF "gold" \notin files \/ "answers" \notin files
       THEN /\ pc' = "FileNotFoundError"
            /\ UNCHANGED <<key_ids, by_id, todo, stdout>>
       ELSE LET loaded == IF include_hidden /\ "hidden" \in files THEN hidden ELSE <<>>
                k == Range(gold) \cup (IF include_hidden THEN Range(loaded) ELSE {})
            IN  /\ key_ids' = k
                /\ by_id' = ById(student)
                /\ todo' = sorted(k)
                /\ stdout' = <<Line("mode", IF include_hidden THEN "gold + hidden"
                                                              ELSE "gold only")>>
                /\ pc' = "loop"
    /\ results' = <<>> /\ total' = 0 /\ max_total' = 0
    /\ UNCHANGED <<report, inputs, u_vars, t_vars>>

\* the loop body, adding only the content score to total
main_loop_content_only ==
    /\ grader = "rag" /\ pc = "loop" /\ todo # <<>>
    /\ LET qid == Head(todo)
           entry == Entry(qid)
           ans == Get(entry.answer, Str(""))
           cites == Get(entry.citations, List(<<>>))
       IN  IF qid \notin DOMAIN RUBRIC
           THEN /\ todo' = Tail(todo)
                /\ UNCHANGED <<pc, results, total, max_total>>
           ELSE LET c == content_score(qid, ans)
                    ok == citation_ok(cites, RUBRIC[qid].cite_rules)
                IN  IF c.exc # "" \/ ok.exc # ""
                    THEN /\ pc' = IF c.exc # "" THEN c.exc ELSE ok.exc
                         /\ max_total' = max_total + 20
                         /\ UNCHANGED <<todo, results, total>>
                    ELSE LET citescore == IF ok.val THEN 10 ELSE 0
                             score == c.score + citescore
                         IN  /\ max_total' = max_total + 20
                             /\ total' = total + c.score
                             /\ results' = Append(results,
                                    [id |-> qid, score |-> score,
                                     content_score |-> c.score,
                                     citation_score |-> citescore,
                                     content_msg |-> c.msg,
                                     citations_ok |-> ok.val])
                             /\ todo' = Tail(todo)
                             /\ pc' = pc
    /\ UNCHANGED <<key_ids, by_id, report, stdout, inputs, u_vars, t_vars>>

\* lines 190-215: one pass of the loop body
main_loop ==
    /\ grader = "rag" /\ pc = "loop" /\ todo # <<>>
    /\ LET qid == Head(todo)
           entry == Entry(qid)
           ans == Get(entry.answer, Str(""))
           cites == Get(entry.citations, List(<<>>))
       IN  IF qid \notin DOMAIN RUBRIC
           THEN /\ todo' = Tail(todo)
                /\ UNCHANGED <<pc, results, total, max_total>>
           ELSE LET c == content_score(qid, ans)
                    ok == citation_ok(cites, RUBRIC[qid].cite_rules)
                IN  IF c.exc # "" \/ ok.exc # ""
                    THEN /\ pc' = IF c.exc # "" THEN c.exc ELSE ok.exc
                         /\ max_total' = max_total + 20
                         /\ UNCHANGED <<todo, results, total>>
                    ELSE LET citescore == IF ok.val THEN 10 ELSE 0
                             score == c.score + citescore
                         IN  /\ max_total' = max_total + 20
                             /\ total' = total + score
                             /\ results' = Append(results,
                                    [id |-> qid, score |-> score,
                                     content_score |-> c.score,
                                     citation_score |-> citescore,
                                     content_msg |-> c.msg,
                                     citations_ok |-> ok.val])
                             /\ todo' = Tail(todo)
                             /\ pc' = pc
    /\ UNCHANGED <<key_ids, by_id, report, stdout, inputs, u_vars, t_vars>>

\* 100*total/max_total if max_total else 0, in whole percent
Percentage(t, m) == IF m # 0 THEN (100 * t) \div m ELSE 0

\* lines 217-225: the summary is printed and the report written
main_report ==
    /\ grader = "rag" /\ pc = "loop" /\ todo = <<>>
    /\ report' = [total |-> total, max_total |-> max_total, results |-> results,
                  percentage |-> Percentage(total, max_total)]
    /\ stdout' = stdout \o <<Line("header", "=== RAG Grading Report ==="),
                              Line("total", ToString(Percentage(total, max_total)))>>
                         \o ResultLines(results)
                         \o <<Line("wrote", "grading_report.json")>>
    /\ pc' = "done"
    /\ UNCHANGED <<key_ids, by_id, todo, results, total, max_total, inputs, u_vars, t_vars>>

-----------------------------------------------------------------------------
(* grade_real_world.main *)

\* lines 99-111
rw_main_start ==
    /\ grader = "rw" /\ pc = "start"
    /\ IF "answers" \notin files
       THEN /\ pc' = "FileNotFoundError"
            /\ UNCHANGED <<key_ids, by_id, todo, stdout>>
       ELSE /\ by_id' = ById(student)
            /\ key_ids' = DOMAIN ById(student)
            /\ todo' = sorted(DOMAIN ById(student))
            /\ stdout' = <<Line("header", "=== Real-World RAG Grading Report ===")>>
            /\ pc' = "loop"
    /\ results' = <<>> /\ total' = 0 /\ max_total' = 0
    /\ UNCHANGED <<report, inputs, u_vars, t_vars>>

\* lines 113-139: one pass of the loop body
rw_main_loop ==
    /\ grader = "rw" /\ pc = "loop" /\ todo # <<>>
    /\ LET qid == Head(todo)
           entry == Entry(qid)
           ans == Get(entry.answer, Str(""))
           cites == Get(entry.citations, List(<<>>))
       IN  IF qid \notin DOMAIN rw_RUBRIC
           THEN /\ stdout' = Append(stdout, Line("warning", qid))
                /\ todo' = Tail(todo)
                /\ UNCHANGED <<pc, results, total, max_total>>
           ELSE LET c == rw_content_score(qid, ans)
                    ok == citation_ok(cites, rw_RUBRIC[qid].cite_rules)
                IN  IF c.exc # "" \/ ok.exc # ""
                    THEN /\ pc' = IF c.exc # "" THEN c.exc ELSE ok.exc
                         /\ max_total' = max_total + 20
                         /\ UNCHANGED <<todo, results, total, stdout>>
                    ELSE LET citescore == IF ok.val THEN 10 ELSE 0
                             score == c.score + citescore
                         IN  /\ max_total' = max_total + 20
                             /\ total' = total + score
                             /\ results' = Append(results,
                                    [id |-> qid, score |-> score,
                                     content_score |-> c.score,
                                     citation_score |-> citescore,
                                     content_msg |-> c.msg,
                                     citations_ok |-> ok.val,
                                     citations |-> cites])
                             /\ todo' = Tail(todo)
                             /\ UNCHANGED <<pc, stdout>>
    /\ UNCHANGED <<key_ids, by_id, report, inputs, u_vars, t_vars>>

\* lines 141-161: r['citations'][:3] of line 147 raises on a null citations value
rw_main_report ==
    /\ grader = "rw" /\ pc = "loop" /\ todo = <<>>
    /\ IF \E i \in DOMAIN results : results[i].citations = Null
       THEN LET bad == CHOOSE i \in DOMAIN results :
                            /\ results[i].citations = Null
                            /\ \A j \in 1..(i - 1) : results[j].citations # Null
            IN  /\ stdout' = stdout
                      \o <<Line("total", ToString(Percentage(total, max_total)))>>
                      \o ResultLines(SubSeq(results, 1, bad))
                /\ pc' = "TypeError"
                /\ UNCHANGED report
       ELSE /\ report' = [total |-> total, max_total |-> max_total, results |-> results,
                          percentage |-> Percentage(total, max_total)]
            /\ stdout' = stdout
                  \o <<Line("total", ToString(Percentage(total, max_total)))>>
                  \o ResultLines(results)
                  \o <<Line("wrote", "real_world_grading_report.json")>>
            /\ pc' = "done"
    /\ UNCHANGED <<key_ids, by_id, todo, results, total, max_total, inputs, u_vars, t_vars>>

-----------------------------------------------------------------------------
(* The grader is run again on the same files, their records in any order *)

Perms(xs) ==
    {[i \in DOMAIN xs |-> xs[f[i]]] :
        f \in {g \in [DOMAIN xs -> DOMAIN xs] : \A i, j \in DOMAIN xs : g[i] = g[j] => i = j}}

Ended == pc \notin {"idle", "start", "loop"}

Rerun ==
    /\ Ended /\ run < MaxRuns
    /\ run' = run + 1
    /\ gold' \in Perms(gold)
    /\ hidden' \in Perms(hidden)
    /\ student' \in Perms(student)
    /\ prev' = [pc |-> pc, report |-> report,
                reordered |-> (gold' # gold /\ student' # student),
                dropped |-> FALSE]
    /\ pc' = "start"
    /\ key_ids' = {} /\ by_id' = <<>> /\ todo' = <<>> /\ results' = <<>>
    /\ total' = 0 /\ max_total' = 0 /\ report' = <<>> /\ stdout' = <<>>
    /\ UNCHANGED <<grader, files, include_hidden, u_vars, t_vars>>

\* the grader is run again on the submissions file with its id-less records
\* taken out
RerunDropped ==
    /\ Ended /\ run < MaxRuns
    /\ WithId(student) # student
    /\ run' = run + 1
    /\ student' = WithId(student)
    /\ prev' = [pc |-> pc, report |-> report, reordered |-> FALSE, dropped |-> TRUE]
    /\ pc' = "start"
    /\ key_ids' = {} /\ by_id' = <<>> /\ todo' = <<>> /\ results' = <<>>
    /\ total' = 0 /\ max_total' = 0 /\ report' = <<>> /\ stdout' = <<>>
    /\ UNCHANGED <<grader, files, include_hidden, gold, hidden, u_vars, t_vars>>

Next == \/ main_start \/ main_loop \/ main_report
        \/ rw_main_start \/ rw_main_loop \/ rw_main_report
        \/ Rerun \/ RerunDropped

Spec == Init /\ [][Next]_vars

-----------------------------------------------------------------------------
(* One run of test_real_world.main, from the questions file being read *)

\* the most entries in the questions file
MaxQuestions == 2

\* an entry of the questions file
Question(id, question) == [id |-> id, question |-> question]

QuestionIds == {Str("RW1"), Str("RW2"), Str("RW3"), Str(""), Absent}
QuestionTexts == {Str("Why do clients get no address?"), Str(""), Absent}

Questions == {Question(i, t) : i \in QuestionIds, t \in QuestionTexts}

\* what the call of rag_answer comes to: an answer with citations, or an
\* exception, which is made the answer
RagAnswers ==
    {[answer |-> "Check the VLAN.", citations |-> <<"docs/troubleshooting_dhcp.md">>],
     [answer |-> "[ERROR] RuntimeError: no index", citations |-> <<>>]}

InitTest ==
    /\ u_Idle /\ m_Idle
    /\ t_pc = "generate"
    /\ questions \in SeqsUpTo(Questions, MaxQuestions)
    /\ qpos = 0 /\ outputs = <<>> /\ blocks = <<>>

\* lines 52-79: one pass of the loop that generates the answers
test_generate ==
    /\ t_pc = "generate" /\ qpos < Len(questions)
    /\ LET q == questions[qpos + 1]
           qid == Get(q.id, Null)
           qtext == Get(q.question, Str(""))
       IN  IF Falsy(qid) \/ Falsy(qtext)
           THEN UNCHANGED outputs
           ELSE \E out \in RagAnswers :
                    outputs' = Append(outputs, [id |-> qid.v, answer |-> out.answer,
                                                citations |-> out.citations])
    /\ qpos' = qpos + 1
    /\ UNCHANGED <<t_pc, questions, blocks, u_vars, m_vars>>

\* lines 81-89: the outputs are written and the evaluation headed
test_write ==
    /\ t_pc = "generate" /\ qpos = Len(questions)
    /\ t_pc' = "evaluate" /\ qpos' = 0
    /\ UNCHANGED <<questions, outputs, blocks, u_vars, m_vars>>

\* the length of zip(questions, outputs)
ZipLen == IF Len(questions) < Len(outputs) THEN Len(questions) ELSE Len(outputs)

\* lines 91-96: one pass of the loop over zip(questions, outputs)
test_evaluate ==
    /\ t_pc = "evaluate" /\ qpos < ZipLen
    /\ LET q == questions[qpos + 1]
           out == outputs[qpos + 1]
       IN  IF q.question = Absent
           THEN /\ t_pc' = "KeyError"
                /\ UNCHANGED <<qpos, blocks>>
           ELSE /\ blocks' = Append(blocks, [id |-> out.id, question |-> q.question,
                                             of |-> q.id, answer |-> out.answer])
                /\ qpos' = qpos + 1
                /\ t_pc' = t_pc
    /\ UNCHANGED <<questions, outputs, u_vars, m_vars>>

\* zip is exhausted and main returns
test_done ==
    /\ t_pc = "evaluate" /\ qpos = ZipLen
    /\ t_pc' = "done"
    /\ UNCHANGED <<questions, qpos, outputs, blocks, u_vars, m_vars>>

NextTest == test_generate \/ test_write \/ test_evaluate \/ test_done

SpecTest == InitTest /\ [][NextTest]_vars

-----------------------------------------------------------------------------
(* Properties of the scoring functions *)

\* the normal form the rubric is matched against: trimmed, whitespace runs
\* collapsed to one space, lower-cased
Normalized(s) == lower(collapse(strip(s)))

\* an alternative (or check) is satisfied by a normalized answer
Satisfied(alt, a) == \A r \in Range(alt) : Contains(r, a)

u_Returned == u_out # Pending

Standard(qid) == RUBRIC[qid].special # "two_of_three"

\* C1: in STANDARD mode content_score returns (1.0, "content: full") exactly
\* when some alternative has all its substrings in the normalized answer, and
\* (0.0, "content: miss") otherwise; there is no partial credit
C1_StandardAllOrNothing ==
    (u_fn = "content_score" /\ u_Returned /\ Standard(u_args.qid) /\ IsStr(u_args.answer))
    => LET a == Normalized(u_args.answer.v)
           rules == RUBRIC[u_args.qid].content_rules
       IN  IF \E k \in DOMAIN rules : Satisfied(rules[k], a)
           THEN u_out = Ret(10, "content: full")
           ELSE u_out = Ret(0, "content: miss")

\* C1 witness: a full score from exactly one satisfied alternative, found only
\* after normalization, and a miss on an answer that holds part of an alternative
C1_Witness ==
    /\ u_fn = "content_score" /\ u_Returned /\ u_args.qid = "H4"
    /\ IsStr(u_args.answer) /\ u_args.answer.v # Normalized(u_args.answer.v)
    /\ u_out.score = 10
    /\ Cardinality({k \in DOMAIN RUBRIC["H4"].content_rules :
                      Satisfied(RUBRIC["H4"].content_rules[k],
                                Normalized(u_args.answer.v))}) = 1

\* the number of checks a normalized answer satisfies
Hit(qid, s) ==
    Cardinality({k \in DOMAIN RUBRIC[qid].content_rules :
                    Satisfied(RUBRIC[qid].content_rules[k], Normalized(s))})

\* C2: for a two_of_three entry the score is 1.0, 0.7, 0.3, 0.0 for 3, 2, 1, 0
\* satisfied checks
C2_TwoOfThreeSteps ==
    (u_fn = "content_score" /\ u_Returned /\ ~Standard(u_args.qid) /\ IsStr(u_args.answer))
    => LET hit == Hit(u_args.qid, u_args.answer.v)
       IN  /\ u_out.exc = ""
           /\ hit \in 0..3
           /\ u_out.score = (CASE hit = 3 -> 10 [] hit = 2 -> 7 [] hit = 1 -> 3 [] hit = 0 -> 0)

\* C2 witness: exactly two of the three checks of G8 are satisfied
C2_Witness ==
    /\ u_fn = "content_score" /\ u_Returned /\ u_args.qid = "G8"
    /\ IsStr(u_args.answer) /\ Hit("G8", u_args.answer.v) = 2
    /\ u_out.score = 7

Blank(x) == x = Null \/ (IsStr(x) /\ Normalized(x.v) = "")

\* C7: an empty, whitespace-only or null answer scores 0.0 and raises nothing
C7_BlankAnswerIsMiss ==
    (u_fn = "content_score" /\ u_Returned /\ Blank(u_args.answer))
    => (u_out.exc = "" /\ u_out.score = 0)

\* a pattern accepts a citation, both normalized
Accepts(pat, cit) ==
    LET P == Normalized(pat)
        C == Normalized(cit)
    IN  Contains(P, C) \/ fnmatch(C, "*" \o P \o "*")

WellTyped(citations) ==
    citations = Null \/ (citations.t = "list" /\ \A i \in DOMAIN citations.v : IsStr(citations.v[i]))

MapCites(citations, F(_)) ==
    IF citations = Null THEN Null
    ELSE List([i \in DOMAIN citations.v |-> Str(F(citations.v[i].v))])

\* C3: citation_ok is true exactly when some pattern accepts some citation; it
\* is false for no citations; case and surrounding whitespace of citations and
\* patterns do not change it
C3_CitationOk ==
    (u_fn = "citation_ok" /\ u_Returned /\ WellTyped(u_args.citations))
    => LET cs == u_args.citations
           ps == u_args.patterns
           items == IF cs = Null THEN <<>> ELSE cs.v
       IN  /\ u_out.exc = ""
           /\ u_out.val = (\E p \in DOMAIN ps : \E i \in DOMAIN items :
                              Accepts(ps[p], items[i].v))
           /\ (Len(items) = 0 => u_out.val = FALSE)
           /\ citation_ok(MapCites(cs, upper), ps) = u_out
           /\ citation_ok(MapCites(cs, pad), ps) = u_out
           /\ citation_ok(cs, MapSeq(ps, upper)) = u_out
           /\ citation_ok(cs, MapSeq(ps, pad)) = u_out

\* C3 witness: one of several accepted sources is cited, in upper case, and
\* only the glob accepts it
C3_Witness ==
    /\ u_fn = "citation_ok" /\ u_Returned /\ WellTyped(u_args.citations)
    /\ u_out.val
    /\ Len(u_args.patterns) > 1
    /\ \E p \in DOMAIN u_args.patterns : \A i \in DOMAIN u_args.citations.v :
          ~Accepts(u_args.patterns[p], u_args.citations.v[i].v)
    /\ \E i \in DOMAIN u_args.citations.v :
          u_args.citations.v[i].v # lower(u_args.citations.v[i].v)

\* C3 witness of the glob: the pattern is no substring of the citation
C3_GlobWitness ==
    /\ u_fn = "citation_ok" /\ u_Returned /\ WellTyped(u_args.citations)
    /\ u_out.val
    /\ \A p \in DOMAIN u_args.patterns : \A i \in DOMAIN u_args.citations.v :
          ~Contains(Normalized(u_args.patterns[p]), Normalized(u_args.citations.v[i].v))

-----------------------------------------------------------------------------
(* Properties of the graders *)

TheRubric == IF grader = "rw" THEN DOMAIN rw_RUBRIC ELSE DOMAIN RUBRIC

\* the ids the run scores
Scored == key_ids \cap TheRubric

Ids(rs) == [i \in DOMAIN rs |-> rs[i].id]

\* C4: when the loop has finished, max_total is 2.0 times the number of scored
\* ids, which is the number of results; with none it is 0 and so is the
\* percentage
C4_MaxTotal ==
    (pc = "done")
    => /\ report.max_total = 20 * Cardinality(Scored)
       /\ report.max_total = 20 * Len(report.results)
       /\ (Cardinality(Scored) = 0 => report.max_total = 0 /\ report.percentage = 0)

\* C4 witness: a finished run of grade_rag over ids with and without rubric entry
C4_Witness ==
    /\ grader = "rag" /\ pc = "done"
    /\ Cardinality(Scored) = 2
    /\ key_ids \ DOMAIN RUBRIC # {}

\* C4 witness of the empty case: a finished run that scored nothing
C4_WitnessZero ==
    /\ grader = "rag" /\ pc = "done" /\ key_ids # {} /\ Scored = {}
    /\ report.percentage = 0

\* C5: the results of grade_rag hold one entry for each scored id and none for
\* another id, in strictly ascending order of id, whatever the order of the
\* banks and of the submissions
C5_ResultsSorted ==
    (grader = "rag")
    => /\ \A i, j \in DOMAIN results : i < j => StrLess(results[i].id, results[j].id)
       /\ Range(Ids(results)) \subseteq Scored
       /\ (pc = "done" =>
             /\ report.results = results
             /\ Range(Ids(results)) = Scored
             /\ Len(results) = Cardinality(Scored))
       /\ (pc = "done" /\ run > 1 /\ prev.pc = "done"
             => Ids(report.results) = Ids(prev.report.results))

\* C5 witness: three ids scored in order from banks that list them in
\* another order, an id without rubric entry left out
C5_Witness ==
    /\ grader = "rag" /\ pc = "done"
    /\ Ids(results) = <<"G4", "H2", "RW1">>
    /\ gold = <<"RW1", "Q7">>

\* a result entry that scores nothing
Zero(r) == r.content_score = 0 /\ r.citation_score = 0 /\ r.score = 0 /\ ~r.citations_ok

\* C6: a scored id without submission gets a result of 0.0 on both parts, is
\* counted in max_total, and never stops the run
C6_MissingSubmission ==
    (grader = "rag")
    => /\ \A i \in DOMAIN results : results[i].id \notin DOMAIN by_id => Zero(results[i])
       /\ \A q \in Scored \ (Range(todo) \cup DOMAIN by_id) :
             \E i \in DOMAIN results : results[i].id = q
       /\ (pc \in {"loop", "done"} => max_total = 20 * Len(results))
       /\ (pc \notin {"start", "loop", "done", "FileNotFoundError"}
             => Head(todo) \in DOMAIN by_id)

\* C6 witness: an id without submission was given its zero and an id after it
\* was graded
C6_Witness ==
    /\ grader = "rag" /\ pc = "done"
    /\ \E i, j \in DOMAIN results :
          /\ i < j
          /\ results[i].id \notin DOMAIN by_id /\ Zero(results[i])
          /\ results[j].id \in DOMAIN by_id /\ results[j].score > 0

\* C8: a record that makes scoring fail costs only its own question: the run
\* still ends with a report that holds every other scored id
C8_BadRecordIsolated ==
    (grader = "rag" /\ Ended /\ pc # "FileNotFoundError")
    => /\ pc = "done"
       /\ \A q \in Scored : \E i \in DOMAIN report.results : report.results[i].id = q

UniqueIds(recs) ==
    \A i, j \in DOMAIN recs : (recs[i].id # Absent /\ recs[i].id = recs[j].id) => i = j

\* C9: a second run over the same banks and submissions, their records in
\* any order and no id twice among the submissions, ends as the first did,
\* with the same report
C9_Deterministic ==
    (run > 1 /\ Ended /\ UniqueIds(student))
    => /\ prev.pc = pc
       /\ prev.report = report

\* C9 witness: both files were reordered between two runs that graded
\* several questions
C9_Witness ==
    /\ grader = "rag" /\ run > 1 /\ pc = "done" /\ UniqueIds(student)
    /\ prev.reordered
    /\ Len(report.results) = 2 /\ report.total > 0

\* C9 without its proviso: with an id twice among the submissions the order
\* of the records decides which one is graded
C9_AnyOrder ==
    (run > 1 /\ Ended) => (prev.pc = pc /\ prev.report = report)

\* C10: in every result of either grader content_score is 0.0, 0.3, 0.7 or
\* 1.0, citation_score is 1.0 when citations_ok and 0.0 when not, and score is
\* their sum
C10_ResultShape ==
    \A i \in DOMAIN results :
        LET r == results[i]
        IN  /\ r.content_score \in {0, 3, 7, 10}
            /\ r.citation_score = (IF r.citations_ok THEN 10 ELSE 0)
            /\ r.score = r.content_score + r.citation_score
            /\ 0 <= r.score /\ r.score <= 20

\* C10 witness: grade_real_world gave partial credit and accepted the
\* citations
C10_Witness ==
    /\ grader = "rw"
    /\ \E i \in DOMAIN results :
          results[i].content_score = 7 /\ results[i].citations_ok /\ results[i].score = 17

\* C10 witness for grade_rag: a two_of_three answer with two checks
C10_WitnessRag ==
    /\ grader = "rag"
    /\ \E i \in DOMAIN results : results[i].content_score = 7


(***************************************************************************)
(* Running totals of grade_rag's loop                                      *)
(***************************************************************************)

RECURSIVE SumScores(_)
SumScores(rs) == IF rs = <<>> THEN 0 ELSE rs[1].score + SumScores(Tail(rs))

\* C11: after every pass of grade_rag's loop, total is the sum of the score
\* fields of the results appended so far, max_total is 2.0 times their number,
\* and 0 <= total <= max_total
C11_RunningTotals ==
    (grader = "rag" /\ pc \in {"loop", "done"})
    => /\ total = SumScores(results)
       /\ max_total = 20 * Len(results)
       /\ 0 <= total /\ total <= max_total

\* C11 witness: between two passes, with a scored id behind and one ahead
C11_Witness ==
    /\ grader = "rag" /\ pc = "loop"
    /\ Len(results) >= 1 /\ results[1].citation_score = 10 /\ total > 10
    /\ todo # <<>> /\ Head(todo) \in DOMAIN RUBRIC


(***************************************************************************)
(* Submission records without an id                                        *)
(***************************************************************************)

\* C12: a submission record without id is not indexed and does not end the
\* run: the run over the submissions with such records taken out ends as the
\* run with them did, with the same report
C12_IdlessRecordIgnored ==
    /\ \A q \in DOMAIN by_id : by_id[q].id = Str(q)
    /\ (run > 1 /\ Ended /\ prev.dropped)
       => /\ prev.pc = pc
          /\ prev.report = report

\* C12 witness: two runs that graded a question, the first with an id-less
\* record among the submissions and the second without it
C12_Witness ==
    /\ run > 1 /\ pc = "done" /\ prev.dropped /\ prev.pc = "done"
    /\ student # <<>>
    /\ Len(report.results) >= 1 /\ report.total > 0

\* C12 witness for grade_real_world
C12_WitnessRw ==
    /\ grader = "rw" /\ C12_Witness


(***************************************************************************)
(* Missing input files of grade_rag                                        *)
(***************************************************************************)

\* the gold bank and the answers file are there, the hidden bank was asked
\* for and is not
HiddenMissing ==
    /\ grader = "rag" /\ "gold" \in files /\ "answers" \in files
    /\ include_hidden /\ "hidden" \notin files

Warned == \E i \in DOMAIN stdout : stdout[i].kind = "warning"

\* what main does about missing files: without the gold bank or the answers
\* file it raises before anything is graded or printed; without a requested
\* hidden bank it goes on with exactly the gold bank's ids
MissingFilesHandled ==
    (grader = "rag" /\ pc # "start")
    => /\ ("gold" \notin files \/ "answers" \notin files)
          => /\ pc = "FileNotFoundError"
             /\ results = <<>> /\ total = 0 /\ max_total = 0
             /\ report = <<>> /\ stdout = <<>>
       /\ HiddenMissing
          => /\ pc # "FileNotFoundError"
             /\ key_ids = Range(gold)

\* C13: grade_rag aborts before grading anything when the gold bank or the
\* answers file is missing; when a requested hidden bank is missing the run
\* goes on, a warning is given, and exactly the gold bank's ids are scored
C13_MissingFiles ==
    /\ MissingFilesHandled
    /\ (HiddenMissing /\ pc # "start") => Warned

\* a run that went on without the requested hidden bank and graded from the
\* gold bank
C13_Fallback ==
    /\ HiddenMissing /\ pc = "done"
    /\ Len(report.results) >= 1


(***************************************************************************)
(* The questions both graders have a rubric entry for                      *)
(***************************************************************************)

SharedIds == DOMAIN RUBRIC \cap DOMAIN rw_RUBRIC

\* how many keywords of an alternative a normalized answer contains
Found(alt, a) == Cardinality({k \in DOMAIN alt : Contains(alt[k], a)})

\* the most keywords any one alternative has in the answer
BestMatch(rules, a) ==
    LET counts == {Found(rules[k], a) : k \in DOMAIN rules}
    IN  CHOOSE m \in counts : \A n \in counts : n <= m

\* a call of either content_score on a shared id with an answer string
SharedCall ==
    /\ u_fn \in {"content_score", "rw_content_score"} /\ u_Returned
    /\ u_args.qid \in SharedIds /\ IsStr(u_args.answer)

\* what grade_rag.content_score returns for the call's arguments
RagOut == IF u_fn = "content_score" THEN u_out
          ELSE content_score(u_args.qid, u_args.answer)

\* what grade_real_world.content_score returns for the call's arguments
RwOut == IF u_fn = "rw_content_score" THEN u_out
         ELSE rw_content_score(u_args.qid, u_args.answer)

C14_Differ ==
    /\ SharedCall /\ u_fn = "content_score" /\ u_args.qid = "RW3"
    /\ u_out.score = 0 /\ RwOut.score = 7


(***************************************************************************)
(* The manual-evaluation printout of test_real_world                       *)
(***************************************************************************)

\* an entry of the questions file that the generation loop passes over
Skipped(q) == Falsy(Get(q.id, Null)) \/ Falsy(Get(q.question, Str("")))

\* C15: every block of the manual-evaluation printout shows output i next to
\* the question it was generated for: the question has the id of output i
C15_BlocksPaired ==
    \A i \in DOMAIN blocks :
        /\ blocks[i].id = outputs[i].id
        /\ blocks[i].of = Str(blocks[i].id)

\* the outputs are those of the entries not passed over, in the order of the
\* file, and when no entry is passed over every block is paired rightly
PairedWhenNoneSkipped ==
    /\ (t_pc \in {"evaluate", "done", "KeyError"})
       => LET kept == SelectSeq(questions, LAMBDA q : ~Skipped(q))
          IN  /\ Len(outputs) = Len(kept)
              /\ \A i \in DOMAIN kept : kept[i].id = Str(outputs[i].id)
    /\ (\A i \in DOMAIN questions : ~Skipped(questions[i]))
       => /\ C15_BlocksPaired
          /\ t_pc # "KeyError"
          /\ t_pc = "done" => Len(blocks) = Len(questions)

\* a printout with a block for every question
C15_AllPrinted ==
    /\ t_pc = "done" /\ Len(blocks) = MaxQuestions
    /\ blocks[1].id # blocks[2].id

\* a block that shows an output next to a question that was passed over
C15_Mispaired ==
    /\ t_pc = "done" /\ Len(questions) = 2 /\ Len(blocks) = 1
    /\ blocks[1].of = Str("") /\ blocks[1].id = "RW2"

=============================================================================
